---- MODULE Spec2Model ----
(***************************************************************************)
(* GitLens CodeLens provider (src/gitCodeLensProvider.ts) and the Git      *)
(* content provider that follows it in the same file.                      *)
(*                                                                         *)
(* One GitCodeLensProvider object serves every document.  Its fields are   *)
(* _config and _documentIsDirty.  provideCodeLenses is an async function:  *)
(* it runs to its first await, is resumed when GitUri.fromUri settles,     *)
(* runs to its second await and is resumed when the blame (and the symbol  *)
(* list) arrive; the rest of the pass is synchronous.  Between these       *)
(* segments any other callback of the host may run.                        *)
(***************************************************************************)
EXTENDS Integers, Sequences, FiniteSets, TLC

VARIABLES
    config,           \* this._config
    documentIsDirty,  \* this._documentIsDirty
    passes,           \* the calls of provideCodeLenses and what they returned
    content           \* the calls of GitContentProvider.provideTextDocumentContent

vars == <<config, documentIsDirty, passes, content>>

(***************************************************************************)
(* Bounds of the model.                                                    *)
(***************************************************************************)
MaxPasses == 2      \* provideCodeLenses calls that may overlap
MaxSymbols == 3     \* length of a symbol list
MaxResolves == 2    \* resolveCodeLens calls counted per placement
MaxFetches == 2     \* provideTextDocumentContent calls

\* new Range(0, 1000000, 1000000, 1000000)
BigNumber == 1000000

Absent == "undefined"

Min(a, b) == IF a < b THEN a ELSE b

(***************************************************************************)
(* vscode.SymbolKind, by name (SymbolKind[symbol.kind]).                   *)
(***************************************************************************)
SymbolKinds ==
    {"File", "Module", "Namespace", "Package", "Class", "Method", "Property",
     "Field", "Constructor", "Enum", "Interface", "Function", "Variable",
     "Constant", "String", "Number", "Boolean", "Array", "Object", "Key",
     "Null", "EnumMember", "Struct", "Event", "Operator", "TypeParameter"}

\* CodeLensLocations
LocDocument == "document"
LocContainers == "containers"
LocBlocks == "blocks"
LocCustom == "custom"

\* CodeLensCommand, by member name
CodeLensCommands ==
    {"BlameAnnotate", "ShowBlameHistory", "ShowFileHistory", "DiffWithPrevious",
     "ShowQuickCommitDetails", "ShowQuickCommitFileDetails",
     "ShowQuickFileHistory", "ShowQuickCurrentBranchHistory"}

(***************************************************************************)
(* String.prototype.toLowerCase on the strings the model uses.  A string   *)
(* outside the table has no value here, so no input is silently passed     *)
(* through unchanged.                                                      *)
(***************************************************************************)
LowerPairs ==
    {<<"File", "file">>, <<"Module", "module">>, <<"Namespace", "namespace">>,
     <<"Package", "package">>, <<"Class", "class">>, <<"Method", "method">>,
     <<"Property", "property">>, <<"Field", "field">>,
     <<"Constructor", "constructor">>, <<"Enum", "enum">>,
     <<"Interface", "interface">>, <<"Function", "function">>,
     <<"Variable", "variable">>, <<"Constant", "constant">>,
     <<"String", "string">>, <<"Number", "number">>, <<"Boolean", "boolean">>,
     <<"Array", "array">>, <<"Object", "object">>, <<"Key", "key">>,
     <<"Null", "null">>, <<"EnumMember", "enummember">>,
     <<"Struct", "struct">>, <<"Event", "event">>, <<"Operator", "operator">>,
     <<"TypeParameter", "typeparameter">>,
     <<"file", "file">>, <<"FILE", "file">>, <<"variable", "variable">>,
     <<"VARIABLE", "variable">>, <<"function", "function">>,
     <<"package", "package">>, <<"field", "field">>,
     <<"property", "property">>,
     <<"csharp", "csharp">>, <<"CSharp", "csharp">>,
     <<"typescript", "typescript">>}

ToLowerCase(s) == (CHOOSE pr \in LowerPairs : pr[1] = s)[2]

\* Array.prototype.includes
Includes(arr, x) == \E i \in DOMAIN arr : arr[i] = x

(***************************************************************************)
(* vscode.Range and TextDocument.  A document is                           *)
(* [isDirty, languageId, lineCount, lineLength]; every line of a document  *)
(* has lineLength characters.                                              *)
(***************************************************************************)
Range(sl, sc, el, ec) == [sl |-> sl, sc |-> sc, el |-> el, ec |-> ec]

\* TextDocument.validateRange: both ends clamped into the document
validateRange(document, r) ==
    Range(Min(r.sl, document.lineCount - 1), Min(r.sc, document.lineLength),
          Min(r.el, document.lineCount - 1), Min(r.ec, document.lineLength))

\* an undefined Range
NoRange == Range(-1, -1, -1, -1)

\* Range.isSingleLine
isSingleLine(r) == r.sl = r.el

\* document.validateRange(new Range(0, 1000000, 1000000, 1000000))
WholeFileRange(document) ==
    validateRange(document, Range(0, BigNumber, BigNumber, BigNumber))

\* new Range(...): the constructor orders its two ends
NewRange(sl, sc, el, ec) ==
    IF el < sl \/ (el = sl /\ ec < sc) THEN Range(el, ec, sl, sc)
    ELSE Range(sl, sc, el, ec)

\* document.lineAt(position).range
LineRange(document, line) == Range(line, 0, line, document.lineLength)

\* (languageLocation.customSymbols || []).find(_ => _.toLowerCase() === name)
CustomIncludes(customSymbols, name) ==
    \E i \in DOMAIN customSymbols : ToLowerCase(customSymbols[i]) = name

(***************************************************************************)
(* _validateSymbolAndGetBlameRange.  A symbol is [kind, range]; a language *)
(* location is [language, locations, customSymbols].                       *)
(***************************************************************************)
ContainerKinds == {"Class", "Interface", "Module", "Namespace", "Struct"}
BlockKinds == {"Constructor", "Enum", "Function", "Method", "Property"}

\* mutant: the allowlist is consulted whether or not Custom is a location
CustomValidAnyLocation(symbol, languageLocation) ==
    CustomIncludes(languageLocation.customSymbols, ToLowerCase(symbol.kind))

CustomValid(symbol, languageLocation) ==
    /\ Includes(languageLocation.locations, LocCustom)
    /\ CustomIncludes(languageLocation.customSymbols, ToLowerCase(symbol.kind))

\* the value of `valid` after the switch
SwitchValid(symbol, languageLocation) ==
    CASE symbol.kind \in {"File", "Package"} ->
            \/ Includes(languageLocation.locations, LocContainers)
            \/ CustomValid(symbol, languageLocation)
      [] symbol.kind \in ContainerKinds ->
            Includes(languageLocation.locations, LocContainers)
      [] symbol.kind \in BlockKinds ->
            Includes(languageLocation.locations, LocBlocks)
      [] OTHER -> FALSE

\* mutant: a valid Package symbol is widened wherever it lies
SwitchRangeAnyPackage(document, symbol, languageLocation) ==
    CASE symbol.kind \in {"File", "Package"} /\ SwitchValid(symbol, languageLocation) ->
            WholeFileRange(document)
      [] OTHER -> NoRange

\* the value of `range` after the switch
SwitchRange(document, symbol, languageLocation) ==
    CASE symbol.kind = "File" /\ SwitchValid(symbol, languageLocation) ->
            WholeFileRange(document)
      [] /\ symbol.kind = "Package"
         /\ SwitchValid(symbol, languageLocation)
         /\ symbol.range.sl = 0
         /\ symbol.range.el = 0 ->
            WholeFileRange(document)
      [] OTHER -> NoRange

validateSymbolAndGetBlameRange(document, symbol, languageLocation) ==
    LET valid == \/ SwitchValid(symbol, languageLocation)
                 \/ CustomValid(symbol, languageLocation)
        range == SwitchRange(document, symbol, languageLocation)
    IN  IF valid
        THEN IF range # NoRange THEN range ELSE symbol.range
        ELSE NoRange

(***************************************************************************)
(* Functions.once (./system): a cell that runs its function on the first   *)
(* call and hands back the stored result afterwards.  `calls` counts the   *)
(* runs of the wrapped git.getBlameForRangeSync.  A range blame is         *)
(* [defined, isUncommitted]: whether getBlameForRangeSync gave a value,    *)
(* and whether the first of its commits is the uncommitted marker.         *)
(***************************************************************************)
NoBlameLines == [defined |-> FALSE, isUncommitted |-> FALSE]

BlameLinesValues == {NoBlameLines} \cup
    {[defined |-> TRUE, isUncommitted |-> u] : u \in BOOLEAN}

once == [called |-> FALSE, value |-> NoBlameLines, calls |-> 0]

\* mutant: the range blame is computed when the lens is made
blameForRangeFnEager == [called |-> TRUE, value |-> NoBlameLines, calls |-> 1]

\* Functions.once(() => this.git.getBlameForRangeSync(blame, gitUri, blameRange)):
\* the range blame is wrapped, not computed
blameForRangeFn == once

\* calling the function `once` returned; `outcome` is what
\* getBlameForRangeSync gives if it is run now
CallOnce(cell, outcome) ==
    IF cell.called THEN cell
    ELSE [called |-> TRUE, value |-> outcome, calls |-> cell.calls + 1]

\* GitRecentChangeCodeLens.getBlame / GitAuthorsCodeLens.getBlame
getBlame(cell, outcome) == CallOnce(cell, outcome)

(***************************************************************************)
(* GitRecentChangeCodeLens / GitAuthorsCodeLens.  `blame` is the index of  *)
(* the once-cell the lens closes over, among the cells of its pass.        *)
(***************************************************************************)
NoArguments == [present |-> FALSE, commit |-> Absent, range |-> NoRange]

NoCommand == [title |-> Absent, command |-> Absent, arguments |-> NoArguments]

CodeLens(kind, blame, symbolKind, blameRange, isFullRange, range) ==
    [kind |-> kind, blame |-> blame, symbolKind |-> symbolKind,
     blameRange |-> blameRange, isFullRange |-> isFullRange, range |-> range,
     command |-> NoCommand, resolved |-> 0]

GitRecentChangeCodeLens(blame, symbolKind, blameRange, isFullRange, range) ==
    CodeLens("RecentChange", blame, symbolKind, blameRange, isFullRange, range)

GitAuthorsCodeLens(blame, symbolKind, blameRange, isFullRange, range) ==
    CodeLens("Authors", blame, symbolKind, blameRange, isFullRange, range)

(***************************************************************************)
(* _provideCodeLens.  `acc` is [lenses, cells]: the lenses pushed so far   *)
(* and the once-cells created so far.                                      *)
(***************************************************************************)
CSharpSingleLineKinds ==
    {"Package", "Module", "Namespace", "Class", "Interface", "Constructor",
     "Method", "Function", "Enum"}

\* mutant: the single-line exception is applied whatever the language
MultilineAnyLanguage(document, symbol, blameRange) ==
    \/ ~isSingleLine(blameRange)
    \/ symbol.kind \in CSharpSingleLineKinds

\* `multiline` at line 217
Multiline(document, symbol, blameRange) ==
    \/ ~isSingleLine(blameRange)
    \/ /\ document.languageId = "csharp"
       /\ symbol.kind \in CSharpSingleLineKinds

\* the one-lens-per-line test of line 184
SameLineAsLast(lenses, lineNumber) ==
    /\ Len(lenses) # 0
    /\ lenses[Len(lenses)].range.sl = lineNumber

provideCodeLens(acc, document, symbol, languageLocation, cfg, dirty) ==
    LET blameRange ==
            validateSymbolAndGetBlameRange(document, symbol, languageLocation)
        lineNumber == symbol.range.sl
        line == LineRange(document, lineNumber)
        startChar == line.ec - 1
        recent == dirty \/ cfg.recentChangeEnabled
        authors == /\ cfg.authorsEnabled
                   /\ Multiline(document, symbol, blameRange)
        \* blameForRangeFn is made at line 191 or, failing that, at line 219
        cells == IF recent \/ authors THEN Append(acc.cells, blameForRangeFn)
                 ELSE acc.cells
        fn == Len(cells)
        lenses1 ==
            IF recent
            THEN Append(acc.lenses,
                        GitRecentChangeCodeLens(fn, symbol.kind, blameRange, FALSE,
                            Range(lineNumber, startChar, line.el, line.ec)))
            ELSE acc.lenses
        startChar2 == IF recent THEN startChar + 1 ELSE startChar
        lenses2 ==
            IF authors /\ ~dirty
            THEN Append(lenses1,
                        GitAuthorsCodeLens(fn, symbol.kind, blameRange, FALSE,
                            Range(lineNumber, startChar2, line.el, line.ec)))
            ELSE lenses1
    IN  IF blameRange = NoRange THEN acc
        ELSE IF SameLineAsLast(acc.lenses, lineNumber) THEN acc
        ELSE [lenses |-> lenses2, cells |-> cells]

\* symbols.forEach(sym => this._provideCodeLens(...))
RECURSIVE ForEachSymbol(_, _, _, _, _, _, _)
ForEachSymbol(acc, i, symbols, document, languageLocation, cfg, dirty) ==
    IF i > Len(symbols) THEN acc
    ELSE ForEachSymbol(
            provideCodeLens(acc, document, symbols[i], languageLocation, cfg, dirty),
            i + 1, symbols, document, languageLocation, cfg, dirty)

(***************************************************************************)
(* provideCodeLenses, lines 58-65: the language's locations, or the        *)
(* default ones.  The configuration is                                     *)
(* [locations, customLocationSymbols, perLanguageLocations,                *)
(*  recentChangeEnabled, authorsEnabled, recentChangeCommand,              *)
(*  authorsCommand, debug].                                                *)
(***************************************************************************)
LanguageMatches(cfg, document) ==
    {i \in DOMAIN cfg.perLanguageLocations :
        /\ cfg.perLanguageLocations[i].language # Absent
        /\ ToLowerCase(cfg.perLanguageLocations[i].language) = document.languageId}

languageLocations(cfg, document) ==
    LET found == LanguageMatches(cfg, document)
    IN  IF found # {}
        THEN cfg.perLanguageLocations[CHOOSE i \in found : \A j \in found : i <= j]
        ELSE [language |-> Absent,
              locations |-> cfg.locations,
              customSymbols |-> cfg.customLocationSymbols]

\* the test of line 73
DocumentOnly(languageLocation) ==
    /\ Len(languageLocation.locations) = 1
    /\ Includes(languageLocation.locations, LocDocument)

\* the test of lines 91-92
WholeDocumentRequested(languageLocation) ==
    \/ Includes(languageLocation.locations, LocDocument)
    \/ /\ Includes(languageLocation.locations, LocCustom)
       /\ CustomIncludes(languageLocation.customSymbols, "file")

\* lenses.find(l => l.range.start.line === 0 && l.range.end.line === 0)
HasLensOnFirstLine(lenses) ==
    \E i \in DOMAIN lenses : lenses[i].range.sl = 0 /\ lenses[i].range.el = 0

\* lines 93-109: the lens for the whole document
DocumentLens(acc, document, cfg, dirty) ==
    LET blameRange == WholeFileRange(document)
        recent == dirty \/ cfg.recentChangeEnabled
        cells == IF recent \/ cfg.authorsEnabled THEN Append(acc.cells, blameForRangeFn)
                 ELSE acc.cells
        fn == Len(cells)
        lenses1 ==
            IF recent
            THEN Append(acc.lenses,
                        GitRecentChangeCodeLens(fn, "File", blameRange, TRUE,
                            NewRange(0, 0, 0, blameRange.sc)))
            ELSE acc.lenses
        lenses2 ==
            IF cfg.authorsEnabled /\ ~dirty
            THEN Append(lenses1,
                        GitAuthorsCodeLens(fn, "File", blameRange, TRUE,
                            NewRange(0, 1, 0, blameRange.sc)))
            ELSE lenses1
    IN  IF HasLensOnFirstLine(acc.lenses) THEN acc
        ELSE [lenses |-> lenses2, cells |-> cells]

(***************************************************************************)
(* provideCodeLenses from line 75 on: what the pass returns once the blame *)
(* of the file and the symbol list have arrived.                           *)
(* `cfg` and `dirty` are this._config and                   *)
(* this._documentIsDirty as they are at that moment.                       *)
(***************************************************************************)
NoLenses == [lenses |-> <<>>, cells |-> <<>>]

\* mutant: only an absent blame counts as empty
BlameIsEmptyUndefinedOnly(blame) == ~blame.defined

\* blame === undefined || blame.lines.length === 0; a file blame is
\* [defined, lines]
BlameIsEmpty(blame) == ~blame.defined \/ blame.lines = 0

Lenses(document, languageLocation, blame, symbols, cfg, dirty) ==
    LET perSymbol ==
            IF DocumentOnly(languageLocation) THEN NoLenses
            ELSE ForEachSymbol(NoLenses, 1, symbols, document,
                               languageLocation, cfg, dirty)
    IN  IF BlameIsEmpty(blame) THEN NoLenses
        ELSE IF WholeDocumentRequested(languageLocation)
        THEN DocumentLens(perSymbol, document, cfg, dirty)
        ELSE perSymbol

(***************************************************************************)
(* The _apply...Command methods.  A command is [title, command,            *)
(* arguments]; the arguments keep the commit and the range handed over     *)
(* (the uri is always given).  `commit` is Absent when the caller passes   *)
(* none, else "committed" or "uncommitted" (GitCommit.isUncommitted).      *)
(***************************************************************************)
Arguments(commit, range) == [present |-> TRUE, commit |-> commit, range |-> range]

applyBlameAnnotateCommand(title, lens, commit) ==
    [title |-> title, command |-> "Commands.ToggleFileBlame",
     arguments |-> Arguments(Absent, NoRange)]

applyShowBlameHistoryCommand(title, lens, commit) ==
    [title |-> title, command |-> "Commands.ShowBlameHistory",
     arguments |-> Arguments(commit, lens.blameRange)]

applyShowFileHistoryCommand(title, lens, commit) ==
    [title |-> title, command |-> "Commands.ShowFileHistory",
     arguments |-> Arguments(commit, NoRange)]

\* without a commit, the commit of the blame line of the lens is taken
applyDiffWithPreviousCommand(title, lens, commit) ==
    [title |-> title, command |-> "Commands.DiffWithPrevious",
     arguments |-> Arguments(IF commit = Absent THEN "ofLine" ELSE commit,
                             IF lens.isFullRange THEN NoRange ELSE lens.blameRange)]

\* mutant: the uncommitted commit is not told apart
applyShowQuickCommitDetailsCommandAlways(title, lens, commit) ==
    [title |-> title, command |-> "CodeLensCommand.ShowQuickCommitDetails",
     arguments |-> Arguments(commit, NoRange)]

applyShowQuickCommitDetailsCommand(title, lens, commit) ==
    [title |-> title,
     command |-> IF commit # Absent /\ commit = "uncommitted" THEN ""
                 ELSE "CodeLensCommand.ShowQuickCommitDetails",
     arguments |-> Arguments(commit, NoRange)]

applyShowQuickCommitFileDetailsCommand(title, lens, commit) ==
    [title |-> title,
     command |-> IF commit # Absent /\ commit = "uncommitted" THEN ""
                 ELSE "CodeLensCommand.ShowQuickCommitFileDetails",
     arguments |-> Arguments(commit, NoRange)]

applyShowQuickFileHistoryCommand(title, lens, commit) ==
    [title |-> title, command |-> "CodeLensCommand.ShowQuickFileHistory",
     arguments |-> Arguments(Absent,
                             IF lens.isFullRange THEN NoRange ELSE lens.blameRange)]

applyShowQuickBranchHistoryCommand(title, lens, commit) ==
    [title |-> title, command |-> "CodeLensCommand.ShowQuickCurrentBranchHistory",
     arguments |-> Arguments(Absent, NoRange)]

\* the switch of lines 261-271 and 284-294; any other value leaves the
\* command of the lens as it is
ApplyCommand(which, title, lens, commit) ==
    CASE which = "BlameAnnotate" -> applyBlameAnnotateCommand(title, lens, commit)
      [] which = "ShowBlameHistory" -> applyShowBlameHistoryCommand(title, lens, commit)
      [] which = "ShowFileHistory" -> applyShowFileHistoryCommand(title, lens, commit)
      [] which = "DiffWithPrevious" -> applyDiffWithPreviousCommand(title, lens, commit)
      [] which = "ShowQuickCommitDetails" ->
            applyShowQuickCommitDetailsCommand(title, lens, commit)
      [] which = "ShowQuickCommitFileDetails" ->
            applyShowQuickCommitFileDetailsCommand(title, lens, commit)
      [] which = "ShowQuickFileHistory" ->
            applyShowQuickFileHistoryCommand(title, lens, commit)
      [] which = "ShowQuickCurrentBranchHistory" ->
            applyShowQuickBranchHistoryCommand(title, lens, commit)
      [] OTHER -> lens.command

(***************************************************************************)
(* _resolveGitRecentChangeCodeLens and _resolveGitAuthorsCodeLens.  Each   *)
(* gives [lens, cell]: the lens as returned and the once-cell afterwards.  *)
(***************************************************************************)
\* this._config.strings.codeLens.unsavedChanges, lines 238-246
UnsavedChangesTitle(cfg) ==
    IF cfg.recentChangeEnabled /\ cfg.authorsEnabled
    THEN "unsavedChanges.recentChangeAndAuthors"
    ELSE IF cfg.recentChangeEnabled THEN "unsavedChanges.recentChangeOnly"
    ELSE "unsavedChanges.authorsOnly"

\* Iterables.first(blame.commits.values())
RecentCommit(blame) == IF blame.isUncommitted THEN "uncommitted" ELSE "committed"

\* lines 258 and 281: what debug adds to a title; `detail` stands for the
\* commit or the authors it names
DebugTitle(lens, detail) ==
    " [" \o lens.symbolKind \o "(" \o ToString(lens.range.sc) \o "-"
         \o ToString(lens.range.ec) \o "), Lines ("
         \o ToString(lens.blameRange.sl + 1) \o "-"
         \o ToString(lens.blameRange.el + 1) \o "), " \o detail \o "]"

resolveGitRecentChangeCodeLens(lens, cell, cfg, dirty, outcome) ==
    LET after == getBlame(cell, outcome)
        blame == after.value
        title == IF cfg.debug
                 THEN "author, fromNow"
                        \o DebugTitle(lens, "Commit (" \o RecentCommit(blame) \o ")")
                 ELSE "author, fromNow"
    IN  IF dirty
        THEN [lens |-> [lens EXCEPT !.command =
                            [title |-> UnsavedChangesTitle(cfg),
                             command |-> Absent, arguments |-> NoArguments]],
              cell |-> cell]
        ELSE IF ~blame.defined THEN [lens |-> lens, cell |-> after]
        ELSE [lens |-> [lens EXCEPT !.command =
                            ApplyCommand(cfg.recentChangeCommand, title, lens,
                                         RecentCommit(blame))],
              cell |-> after]

resolveGitAuthorsCodeLens(lens, cell, cfg, dirty, outcome) ==
    LET after == getBlame(cell, outcome)
        blame == after.value
        title == IF cfg.debug
                 THEN "count authors (first)"
                        \o DebugTitle(lens, "Authors (names)")
                 ELSE "count authors (first)"
    IN  IF ~blame.defined THEN [lens |-> lens, cell |-> after]
        ELSE [lens |-> [lens EXCEPT !.command =
                            ApplyCommand(cfg.authorsCommand, title, lens, Absent)],
              cell |-> after]

\* resolveCodeLens, lines 228-232
resolveCodeLens(lens, cell, cfg, dirty, outcome) ==
    IF lens.kind = "RecentChange"
    THEN resolveGitRecentChangeCodeLens(lens, cell, cfg, dirty, outcome)
    ELSE resolveGitAuthorsCodeLens(lens, cell, cfg, dirty, outcome)

(***************************************************************************)
(* The calls of provideCodeLenses.  A pass is at "idle" (not yet called),  *)
(* "fromUri" (awaiting GitUri.fromUri, line 69), "fetch" (awaiting the     *)
(* blame and, unless only the document lens is wanted, the symbols, lines  *)
(* 74 and 78), "returned" or "rejected".  `cancelled` is the host's        *)
(* cancellation token; `blame` and `symbols` record what the fetches gave. *)
(***************************************************************************)
PassIds == 1..MaxPasses

NoDocument == [isDirty |-> FALSE, languageId |-> Absent, lineCount |-> 0,
               lineLength |-> 0]

NoLanguageLocation == [language |-> Absent, locations |-> <<>>,
                       customSymbols |-> <<>>]

NoBlame == [defined |-> FALSE, lines |-> 0]

IdlePass ==
    [pc |-> "idle", document |-> NoDocument,
     languageLocations |-> NoLanguageLocation, cancelled |-> FALSE,
     symbolsRequested |-> FALSE, blame |-> NoBlame, symbols |-> <<>>,
     lenses |-> <<>>, cells |-> <<>>]

\* lines 55-69: the call, up to the first await
ProvideCodeLenses(p, document) ==
    /\ passes[p].pc = "idle"
    /\ \A q \in PassIds : q < p => passes[q].pc # "idle"
    /\ documentIsDirty' = document.isDirty
    /\ passes' = [passes EXCEPT ![p] =
            [@ EXCEPT !.pc = "fromUri",
                      !.document = document,
                      !.languageLocations = languageLocations(config, document)]]
    /\ UNCHANGED <<config, content>>

\* lines 71-81: GitUri.fromUri has settled; the fetches are issued
FetchBlame(p) ==
    /\ passes[p].pc = "fromUri"
    /\ passes' = [passes EXCEPT ![p] =
            [@ EXCEPT !.pc = "fetch",
                      !.symbolsRequested =
                          ~DocumentOnly(passes[p].languageLocations)]]
    /\ UNCHANGED <<config, documentIsDirty, content>>

\* lines 75 and 83-112: the fetches have settled and the pass returns
ReturnLenses(p, blame, symbols) ==
    /\ passes[p].pc = "fetch"
    /\ passes[p].symbolsRequested \/ symbols = <<>>
    /\ LET pass == passes[p]
           got == Lenses(pass.document, pass.languageLocations, blame, symbols,
                         config, documentIsDirty)
       IN  passes' = [passes EXCEPT ![p] =
                [@ EXCEPT !.pc = "returned", !.blame = blame,
                          !.symbols = symbols, !.lenses = got.lenses,
                          !.cells = got.cells]]
    /\ UNCHANGED <<config, documentIsDirty, content>>

\* line 87: the symbol provider gave undefined and the blame is not empty,
\* so symbols.length throws and the promise is rejected
RejectLenses(p, blame) ==
    /\ passes[p].pc = "fetch"
    /\ passes[p].symbolsRequested
    /\ ~BlameIsEmpty(blame)
    /\ passes' = [passes EXCEPT ![p] = [@ EXCEPT !.pc = "rejected", !.blame = blame]]
    /\ UNCHANGED <<config, documentIsDirty, content>>

\* the host signals the token of a pass that has not returned yet; no line
\* of provideCodeLenses reads the token
Cancel(p) ==
    /\ passes[p].pc \in {"fromUri", "fetch"}
    /\ ~passes[p].cancelled
    /\ passes' = [passes EXCEPT ![p] = [@ EXCEPT !.cancelled = TRUE]]
    /\ UNCHANGED <<config, documentIsDirty, content>>

\* resolveCodeLens on lens i of what pass p returned
ResolveCodeLens(p, i, outcome) ==
    /\ passes[p].pc = "returned"
    /\ i \in DOMAIN passes[p].lenses
    /\ passes[p].lenses[i].resolved < MaxResolves
    /\ LET lens == passes[p].lenses[i]
           got == resolveCodeLens(lens, passes[p].cells[lens.blame], config,
                                  documentIsDirty, outcome)
       IN  passes' = [passes EXCEPT ![p] =
                [@ EXCEPT !.lenses[i] =
                              [got.lens EXCEPT !.resolved = lens.resolved + 1],
                          !.cells[lens.blame] = got.cell]]
    /\ UNCHANGED <<config, documentIsDirty, content>>

\* reset, lines 48-53
reset(cfg) ==
    /\ config' = cfg
    /\ UNCHANGED <<documentIsDirty, passes, content>>

(***************************************************************************)
(* GitContentProvider.provideTextDocumentContent, lines 441-458.  `data`   *)
(* is GitService.fromGitContentUri(uri).  The method is async and keeps no *)
(* state of its own, so a call may be made while earlier ones still await  *)
(* their fetch.  `content` is [calls, notices]: the calls made so far, in   *)
(* order, and the window.showErrorMessage notices shown so far, in order.  *)
(* A call is [pc, data, fetches, failed, result, notices]: its place       *)
(* ("fetching" or "returned"), the getVersionedFileText calls it made,     *)
(* whether that fetch failed, what it gave back and the notices it showed. *)
(***************************************************************************)
FakeSha == "GitService.fakeSha"

NoContent == [calls |-> <<>>, notices |-> <<>>]

\* data.originalFileName || data.fileName
FileNameOf(data) ==
    IF data.originalFileName \notin {Absent, ""} THEN data.originalFileName
    ELSE data.fileName

\* lines 448-451: the text, under its decoration if there is one; a text is
\* the sequence of the pieces it is put together from
Decorated(data, text) ==
    IF data.decoration \notin {Absent, ""}
    THEN <<data.decoration, "\n", text>>
    ELSE <<text>>

\* the notice of line 455
ErrorMessage(data) ==
    <<"Unable to show Git revision ", <<"shortenSha", data.sha>>, " of '",
      <<"relative", data.repoPath, FileNameOf(data)>>, "'">>

\* mutant: the failure is logged but no notice is shown
CatchFetchErrorSilent(c) ==
    [c EXCEPT !.pc = "returned", !.failed = TRUE, !.result = <<Absent>>]

\* lines 453-457: the catch block, on the call that failed
CatchFetchError(c) ==
    [c EXCEPT !.pc = "returned", !.failed = TRUE, !.result = <<Absent>>,
              !.notices = Append(@, ErrorMessage(c.data))]

\* lines 442-447: a new call, to its await; the fake sha is not fetched
ProvideTextDocumentContent(data) ==
    /\ Len(content.calls) < MaxFetches
    /\ content' = [content EXCEPT !.calls = Append(@,
            IF data.sha # FakeSha
            THEN [pc |-> "fetching", data |-> data, fetches |-> 1,
                  failed |-> FALSE, result |-> <<Absent>>, notices |-> <<>>]
            ELSE [pc |-> "returned", data |-> data, fetches |-> 0,
                  failed |-> FALSE, result |-> Decorated(data, ""),
                  notices |-> <<>>])]
    /\ UNCHANGED <<config, documentIsDirty, passes>>

\* git.getVersionedFileText gave call c the text
FetchedText(c, text) ==
    /\ c \in DOMAIN content.calls
    /\ content.calls[c].pc = "fetching"
    /\ content' = [content EXCEPT
            !.calls[c] = [@ EXCEPT !.pc = "returned",
                                   !.result = Decorated(content.calls[c].data, text)]]
    /\ UNCHANGED <<config, documentIsDirty, passes>>

\* git.getVersionedFileText of call c was rejected
FetchFailed(c) ==
    /\ c \in DOMAIN content.calls
    /\ content.calls[c].pc = "fetching"
    /\ LET call == content.calls[c]
           after == CatchFetchError(call)
       IN  content' = [content EXCEPT
                !.calls[c] = after,
                !.notices = @ \o SubSeq(after.notices, Len(call.notices) + 1,
                                        Len(after.notices))]
    /\ UNCHANGED <<config, documentIsDirty, passes>>

(***************************************************************************)
(* The inputs.                                                             *)
(***************************************************************************)
LineLengths == {4}      \* characters of each line of a document
LineCounts == {1, 2}    \* lines of a document

DefaultConfig ==
    [locations |-> <<LocDocument, LocContainers, LocBlocks>>,
     customLocationSymbols |-> <<>>,
     perLanguageLocations |-> <<>>,
     recentChangeEnabled |-> TRUE,
     authorsEnabled |-> TRUE,
     recentChangeCommand |-> "ShowQuickCommitDetails",
     authorsCommand |-> "BlameAnnotate",
     debug |-> FALSE]

Document(isDirty, languageId, lineCount) ==
    [isDirty |-> isDirty, languageId |-> languageId, lineCount |-> lineCount,
     lineLength |-> CHOOSE n \in LineLengths : TRUE]

Symbol(kind, sl, el, ec) == [kind |-> kind, range |-> Range(sl, 0, el, ec)]

\* the line ranges of a document
LineRanges(document) ==
    {r \in (0..(document.lineCount - 1)) \X (0..(document.lineCount - 1)) :
        r[1] <= r[2]}

\* the symbols of the given kinds that lie in a document
SymbolsIn(document, kinds) ==
    {Symbol(k, r[1], r[2], document.lineLength) :
        k \in kinds, r \in LineRanges(document)}

FileBlames(document) ==
    {NoBlame, [defined |-> TRUE, lines |-> 0],
     [defined |-> TRUE, lines |-> document.lineCount]}

SeqsUpTo(S, n) == UNION {[1..k -> S] : k \in 0..n}

\* the enable flags of the two kinds of lens
FlagConfigs ==
    {[DefaultConfig EXCEPT !.recentChangeEnabled = r, !.authorsEnabled = a] :
        r \in BOOLEAN, a \in BOOLEAN}

(***************************************************************************)
(* Spec: passes for dirty and clean documents, overlapping as the awaits   *)
(* allow, with cancellations and resolutions of what the passes returned.  *)
(***************************************************************************)
Documents == {Document(d, "typescript", 2) : d \in BOOLEAN}

SymbolLists == {<<Symbol("Class", 0, 1, 4)>>, <<Symbol("Function", 1, 1, 4)>>}

StartedBlames(document) == {NoBlame, [defined |-> TRUE, lines |-> document.lineCount]}

Init ==
    /\ config \in FlagConfigs
    /\ documentIsDirty = FALSE     \* the field is undefined, which reads as false
    /\ passes = [p \in PassIds |-> IdlePass]
    /\ content = NoContent

Next ==
    \/ \E p \in PassIds, document \in Documents : ProvideCodeLenses(p, document)
    \/ \E p \in PassIds : FetchBlame(p)
    \/ \E p \in PassIds :
            /\ passes[p].pc = "fetch"
            /\ \E blame \in StartedBlames(passes[p].document),
                  symbols \in SymbolLists :
                    ReturnLenses(p, blame, symbols)
    \/ \E p \in PassIds : Cancel(p)
    \/ \E p \in PassIds : \E i \in DOMAIN passes[p].lenses,
                              outcome \in BlameLinesValues :
            ResolveCodeLens(p, i, outcome)

Spec == Init /\ [][Next]_vars

(***************************************************************************)
(* SpecPass: one pass, over the symbol lists of a document and the         *)
(* placement policies.                                                     *)
(***************************************************************************)
PassKinds == {"File", "Function", "Property"}

PassSymbolLists(document) == SeqsUpTo(SymbolsIn(document, PassKinds), MaxSymbols)

\* locations and customLocationSymbols
PassPolicies ==
    {<<<<LocDocument>>, <<>>>>,
     <<<<LocBlocks>>, <<>>>>,
     <<<<LocContainers, LocBlocks>>, <<>>>>,
     <<<<LocDocument, LocContainers, LocBlocks>>, <<>>>>,
     <<<<LocCustom>>, <<"FILE">>>>,
     <<<<LocCustom>>, <<"property", "Function">>>>}

PassConfigs ==
    {[c EXCEPT !.locations = pol[1], !.customLocationSymbols = pol[2]] :
        c \in FlagConfigs, pol \in PassPolicies}

PassDocuments ==
    {Document(d, l, n) : d \in BOOLEAN, l \in {"typescript", "csharp"},
                         n \in LineCounts}

InitPass ==
    /\ config \in PassConfigs
    /\ documentIsDirty = FALSE
    /\ passes = [p \in PassIds |-> IdlePass]
    /\ content = NoContent

NextPass ==
    \/ \E document \in PassDocuments : ProvideCodeLenses(1, document)
    \/ FetchBlame(1)
    \/ /\ passes[1].pc = "fetch"
       /\ \E blame \in FileBlames(passes[1].document),
             symbols \in PassSymbolLists(passes[1].document) :
                ReturnLenses(1, blame, symbols)
    \/ \E blame \in FileBlames(passes[1].document) : RejectLenses(1, blame)

SpecPass == InitPass /\ [][NextPass]_vars

(***************************************************************************)
(* SpecSymbol: one pass over symbols of every kind of vscode.SymbolKind,   *)
(* alone or followed by a second symbol, under policies that bring in each *)
(* location, allowlists and the locations of a language.                   *)
(***************************************************************************)
SecondKinds == {"Package", "Function", "Variable"}

SymbolSymbolLists(document) ==
    {<<>>}
    \cup {<<s>> : s \in SymbolsIn(document, SymbolKinds)}
    \cup {<<s, t>> : s \in SymbolsIn(document, SymbolKinds),
                     t \in SymbolsIn(document, SecondKinds)}

CSharpBlocks ==
    <<[language |-> "CSharp", locations |-> <<LocBlocks>>, customSymbols |-> <<>>]>>

\* locations, customLocationSymbols and perLanguageLocations
SymbolPolicies ==
    {<<<<LocDocument>>, <<>>, <<>>>>,
     <<<<LocContainers>>, <<>>, CSharpBlocks>>,
     <<<<LocBlocks>>, <<>>, <<>>>>,
     <<<<LocDocument, LocContainers, LocBlocks>>, <<>>, <<>>>>,
     <<<<LocCustom>>, <<>>, <<>>>>,
     <<<<LocCustom>>, <<"FILE", "VARIABLE">>, <<>>>>,
     <<<<LocBlocks, LocCustom>>, <<"package", "field">>, <<>>>>,
     <<<<LocDocument, LocCustom>>, <<"function">>, <<>>>>,
     <<<<LocContainers>>, <<"file", "variable">>, <<>>>>}

SymbolConfigs ==
    {[c EXCEPT !.locations = pol[1], !.customLocationSymbols = pol[2],
               !.perLanguageLocations = pol[3]] :
        c \in FlagConfigs, pol \in SymbolPolicies}

InitSymbol ==
    /\ config \in SymbolConfigs
    /\ documentIsDirty = FALSE
    /\ passes = [p \in PassIds |-> IdlePass]
    /\ content = NoContent

NextSymbol ==
    \/ \E document \in PassDocuments : ProvideCodeLenses(1, document)
    \/ FetchBlame(1)
    \/ /\ passes[1].pc = "fetch"
       /\ \E blame \in FileBlames(passes[1].document),
             symbols \in SymbolSymbolLists(passes[1].document) :
                ReturnLenses(1, blame, symbols)

SpecSymbol == InitSymbol /\ [][NextSymbol]_vars

(***************************************************************************)
(* SpecResolve: one pass and the resolutions of its lenses, under every    *)
(* configured command and with resets of the configuration.                *)
(***************************************************************************)
ResolveCommands == CodeLensCommands \cup {"other"}

ResolveConfigs ==
    {[c EXCEPT !.recentChangeCommand = r, !.authorsCommand = a] :
        c \in FlagConfigs, r \in ResolveCommands,
        a \in {"BlameAnnotate", "ShowQuickCommitDetails"}}
    \cup {[c EXCEPT !.debug = TRUE] : c \in FlagConfigs}

ResolveSymbolLists == {<<Symbol("Class", 0, 1, 4)>>}

InitResolve ==
    /\ config \in ResolveConfigs
    /\ documentIsDirty = FALSE
    /\ passes = [p \in PassIds |-> IdlePass]
    /\ content = NoContent

NextResolve ==
    \/ \E document \in Documents : ProvideCodeLenses(1, document)
    \/ FetchBlame(1)
    \/ \E symbols \in ResolveSymbolLists :
            ReturnLenses(1, [defined |-> TRUE, lines |-> 2], symbols)
    \/ \E i \in DOMAIN passes[1].lenses, outcome \in BlameLinesValues :
            ResolveCodeLens(1, i, outcome)
    \/ \E cfg \in ResolveConfigs : reset(cfg)

SpecResolve == InitResolve /\ [][NextResolve]_vars

(***************************************************************************)
(* SpecContent: the calls of the content provider.                         *)
(***************************************************************************)
ContentData ==
    [repoPath : {"repo"}, fileName : {"repo/a.ts"},
     originalFileName : {Absent, "repo/old.ts"}, sha : {FakeSha, "1234abcd"},
     decoration : {Absent, "", "decoration"}]

ContentTexts == {"", "text"}

NextContent ==
    \/ \E data \in ContentData : ProvideTextDocumentContent(data)
    \/ \E c \in DOMAIN content.calls, text \in ContentTexts : FetchedText(c, text)
    \/ \E c \in DOMAIN content.calls : FetchFailed(c)

SpecContent == Init /\ [][NextContent]_vars

(***************************************************************************)
(* The properties.                                                         *)
(***************************************************************************)
Returned(p) == passes[p].pc = "returned"

LensesOf(p) == passes[p].lenses

\* lens i of pass p is resolved in this step
Resolves(p, i) ==
    /\ i \in DOMAIN passes[p].lenses
    /\ passes'[p].lenses[i].resolved = passes[p].lenses[i].resolved + 1

UnsavedTitles ==
    {"unsavedChanges.recentChangeAndAuthors", "unsavedChanges.recentChangeOnly",
     "unsavedChanges.authorsOnly"}

\* C1: what provideCodeLenses returns never holds two lenses of the same
\* kind (two RecentChange or two Authors) whose ranges start on the same
\* line, whatever the order of the symbols.
C1_OneLensOfAKindPerLine ==
    \A p \in PassIds :
        Returned(p) =>
            \A i, j \in DOMAIN LensesOf(p) :
                (/\ i # j
                 /\ LensesOf(p)[i].kind = LensesOf(p)[j].kind)
                => LensesOf(p)[i].range.sl # LensesOf(p)[j].range.sl

\* C2: a pass for a dirty document returns no Authors lens, and returns a
\* RecentChange lens on the line of every eligible symbol and, where the
\* whole document is asked for, on line 0.
C2_DirtyPassKeepsOnlyRecentChange ==
    \A p \in PassIds :
        (Returned(p) /\ passes[p].document.isDirty) =>
            /\ \A i \in DOMAIN LensesOf(p) : LensesOf(p)[i].kind # "Authors"
            /\ ~BlameIsEmpty(passes[p].blame) =>
                /\ \A k \in DOMAIN passes[p].symbols :
                      validateSymbolAndGetBlameRange(passes[p].document,
                          passes[p].symbols[k], passes[p].languageLocations)
                        # NoRange
                      => \E i \in DOMAIN LensesOf(p) :
                            /\ LensesOf(p)[i].kind = "RecentChange"
                            /\ LensesOf(p)[i].range.sl = passes[p].symbols[k].range.sl
                /\ WholeDocumentRequested(passes[p].languageLocations) =>
                      \E i \in DOMAIN LensesOf(p) :
                            /\ LensesOf(p)[i].kind = "RecentChange"
                            /\ LensesOf(p)[i].range.sl = 0

\* C3: a lens of a pass for a dirty document, once resolved, carries one of
\* the three unsaved-changes titles, picked by the enable flags alone, and
\* no command identifier and no arguments.
C3_DirtyLensResolvesToUnsavedTitle ==
    \A p \in PassIds :
        (Returned(p) /\ passes[p].document.isDirty) =>
            \A i \in DOMAIN LensesOf(p) :
                LensesOf(p)[i].resolved > 0 =>
                    /\ LensesOf(p)[i].command.title =
                          (IF config.recentChangeEnabled /\ config.authorsEnabled
                           THEN "unsavedChanges.recentChangeAndAuthors"
                           ELSE IF config.recentChangeEnabled
                           THEN "unsavedChanges.recentChangeOnly"
                           ELSE "unsavedChanges.authorsOnly")
                    /\ LensesOf(p)[i].command.command = Absent
                    /\ ~LensesOf(p)[i].command.arguments.present

\* C4: the range blame of a lens is not computed by provideCodeLenses; it is
\* computed at most once, by a resolution of a lens that holds it, and once
\* it is computed every later resolution leaves it as it is.
C4_ComputedOnlyByResolution ==
    \A p \in PassIds :
        \A c \in DOMAIN passes[p].cells :
            /\ passes[p].cells[c].calls <= 1
            /\ passes[p].cells[c].called = (passes[p].cells[c].calls = 1)
            /\ passes[p].cells[c].calls > 0 =>
                  \E i \in DOMAIN LensesOf(p) :
                        /\ LensesOf(p)[i].blame = c
                        /\ LensesOf(p)[i].resolved > 0

C4_MemoizedStep ==
    \A p \in PassIds :
        \A c \in DOMAIN passes[p].cells :
            passes[p].cells[c].called => passes'[p].cells[c] = passes[p].cells[c]

C4_RangeBlameLazyAndOnce ==
    /\ []C4_ComputedOnlyByResolution
    /\ [][C4_MemoizedStep]_vars

\* a lens resolved twice whose range blame was computed, once
C4_Witness ==
    \E p \in PassIds :
        \E i \in DOMAIN LensesOf(p) :
            /\ LensesOf(p)[i].resolved = 2
            /\ passes[p].cells[LensesOf(p)[i].blame].calls = 1
            /\ passes[p].cells[LensesOf(p)[i].blame].value.defined

\* C5: with the blame of the file absent or of zero lines, the pass returns
\* no lens and wraps no range blame, for every policy and symbol list.
C5_EmptyBlameGivesNoLenses ==
    \A p \in PassIds :
        (/\ Returned(p)
         /\ (~passes[p].blame.defined \/ passes[p].blame.lines = 0))
        => (LensesOf(p) = <<>> /\ passes[p].cells = <<>>)

\* a pass returned on a blame of zero lines though a symbol was eligible and
\* the lens of the whole document was asked for
C5_Witness ==
    \E p \in PassIds :
        /\ Returned(p)
        /\ passes[p].blame.defined
        /\ passes[p].blame.lines = 0
        /\ WholeDocumentRequested(passes[p].languageLocations)
        /\ \E k \in DOMAIN passes[p].symbols :
              validateSymbolAndGetBlameRange(passes[p].document,
                  passes[p].symbols[k], passes[p].languageLocations) # NoRange

\* C6: a pass whose token was signalled before it got to its symbols
\* returns no lens.
C6_CancelledPassReturnsNothing ==
    \A p \in PassIds :
        (Returned(p) /\ passes[p].cancelled) => LensesOf(p) = <<>>

\* the blame range of the symbol at k, or NoRange if it is not eligible
BlameRangeOf(p, k) ==
    validateSymbolAndGetBlameRange(passes[p].document, passes[p].symbols[k],
                                   passes[p].languageLocations)

\* the symbol at k is eligible and its blame range is a single line
SingleLineSymbol(p, k) ==
    /\ BlameRangeOf(p, k) # NoRange
    /\ BlameRangeOf(p, k).sl = BlameRangeOf(p, k).el

\* the symbol at k is eligible and the nearest eligible symbol before it, if
\* there is one, starts on another line
Placed(p, k) ==
    /\ BlameRangeOf(p, k) # NoRange
    /\ \A j \in 1..(k - 1) :
          (/\ BlameRangeOf(p, j) # NoRange
           /\ \A m \in (j + 1)..(k - 1) : BlameRangeOf(p, m) = NoRange)
          => passes[p].symbols[j].range.sl # passes[p].symbols[k].range.sl

\* the RecentChange lenses of a pass that belong to the symbol at k
RecentChangeLensesOf(p, k) ==
    {i \in DOMAIN LensesOf(p) :
        /\ LensesOf(p)[i].kind = "RecentChange"
        /\ ~LensesOf(p)[i].isFullRange
        /\ LensesOf(p)[i].symbolKind = passes[p].symbols[k].kind
        /\ LensesOf(p)[i].range.sl = passes[p].symbols[k].range.sl
        /\ LensesOf(p)[i].blameRange = BlameRangeOf(p, k)}

\* with Authors enabled and the document clean, an Authors lens of a symbol
\* over a blame range of a single line is one of the csharp exception
C7_AuthorsNeedSeveralLines ==
    \A p \in PassIds :
        (/\ Returned(p)
         /\ config.authorsEnabled
         /\ ~passes[p].document.isDirty)
        => \A i \in DOMAIN LensesOf(p) :
                (/\ LensesOf(p)[i].kind = "Authors"
                 /\ ~LensesOf(p)[i].isFullRange
                 /\ LensesOf(p)[i].blameRange.sl = LensesOf(p)[i].blameRange.el)
                => /\ passes[p].document.languageId = "csharp"
                   /\ LensesOf(p)[i].symbolKind \in
                        {"Package", "Module", "Namespace", "Class", "Interface",
                         "Constructor", "Method", "Function", "Enum"}

\* C7 as stated: with Authors enabled and the document clean, no symbol
\* gets an Authors lens over a blame range of a single line, unless the
\* language is csharp and the kind one of Package, Module, Namespace, Class,
\* Interface, Constructor, Method, Function, Enum; with RecentChange enabled
\* every eligible symbol with such a blame range gets its RecentChange lens.
C7_SingleLineKeepsRecentChange ==
    /\ C7_AuthorsNeedSeveralLines
    /\ \A p \in PassIds :
        (/\ Returned(p)
         /\ config.authorsEnabled
         /\ ~passes[p].document.isDirty
         /\ config.recentChangeEnabled
         /\ ~BlameIsEmpty(passes[p].blame))
        => \A k \in DOMAIN passes[p].symbols :
                SingleLineSymbol(p, k) => RecentChangeLensesOf(p, k) # {}

\* C7, amended: the Authors half as stated; with RecentChange enabled an
\* eligible symbol with a blame range of a single line gets its
\* RecentChange lens unless the nearest eligible symbol before it in the
\* list starts on its line, and then it gets no lens: the pass has as many
\* RecentChange lenses over single-line blame ranges as it has such symbols
\* that are not on the line of the eligible symbol before them.
C7_SingleLineGetsNoAuthors ==
    /\ C7_AuthorsNeedSeveralLines
    /\ \A p \in PassIds :
        (/\ Returned(p)
         /\ config.authorsEnabled
         /\ ~passes[p].document.isDirty
         /\ config.recentChangeEnabled
         /\ ~BlameIsEmpty(passes[p].blame))
        => /\ \A k \in DOMAIN passes[p].symbols :
                (SingleLineSymbol(p, k) /\ Placed(p, k))
                    => RecentChangeLensesOf(p, k) # {}
           /\ Cardinality({i \in DOMAIN LensesOf(p) :
                    /\ LensesOf(p)[i].kind = "RecentChange"
                    /\ ~LensesOf(p)[i].isFullRange
                    /\ LensesOf(p)[i].blameRange.sl = LensesOf(p)[i].blameRange.el})
                = Cardinality({k \in DOMAIN passes[p].symbols :
                    SingleLineSymbol(p, k) /\ Placed(p, k)})

\* a clean typescript pass with both kinds enabled over a two-line Function,
\* a single-line Function of the next line and a single-line Property of
\* that same line: the first has a RecentChange and an Authors lens, the
\* second a RecentChange lens alone, the third no lens
C7_Witness ==
    \E p \in PassIds :
        /\ Returned(p)
        /\ config.authorsEnabled
        /\ config.recentChangeEnabled
        /\ ~passes[p].document.isDirty
        /\ passes[p].document.languageId = "typescript"
        /\ Len(passes[p].symbols) = 3
        /\ passes[p].symbols[1] = Symbol("Function", 0, 1, 4)
        /\ passes[p].symbols[2] = Symbol("Function", 1, 1, 4)
        /\ passes[p].symbols[3] = Symbol("Property", 1, 1, 4)
        /\ SingleLineSymbol(p, 2) /\ Placed(p, 2)
        /\ SingleLineSymbol(p, 3) /\ ~Placed(p, 3)
        /\ Len(LensesOf(p)) = 3
        /\ LensesOf(p)[1].kind = "RecentChange" /\ LensesOf(p)[1].range.sl = 0
        /\ LensesOf(p)[2].kind = "Authors" /\ LensesOf(p)[2].range.sl = 0
        /\ LensesOf(p)[3].kind = "RecentChange" /\ LensesOf(p)[3].range.sl = 1
        /\ LensesOf(p)[3].symbolKind = "Function"

\* the command identifier each configured command gives for a committed commit
C8_CommandIdentifier(which) ==
    CASE which = "BlameAnnotate" -> "Commands.ToggleFileBlame"
      [] which = "ShowBlameHistory" -> "Commands.ShowBlameHistory"
      [] which = "ShowFileHistory" -> "Commands.ShowFileHistory"
      [] which = "DiffWithPrevious" -> "Commands.DiffWithPrevious"
      [] which = "ShowQuickCommitDetails" -> "CodeLensCommand.ShowQuickCommitDetails"
      [] which = "ShowQuickCommitFileDetails" ->
            "CodeLensCommand.ShowQuickCommitFileDetails"
      [] which = "ShowQuickFileHistory" -> "CodeLensCommand.ShowQuickFileHistory"
      [] which = "ShowQuickCurrentBranchHistory" ->
            "CodeLensCommand.ShowQuickCurrentBranchHistory"

C8_ResolveStep ==
    \A p \in PassIds :
        \A i \in DOMAIN LensesOf(p) :
            (/\ Resolves(p, i)
             /\ LensesOf(p)[i].kind = "RecentChange"
             /\ ~documentIsDirty
             /\ config.recentChangeCommand \in CodeLensCommands
             /\ passes'[p].cells[LensesOf(p)[i].blame].value.defined)
            => passes'[p].lenses[i].command.command =
                 (IF /\ passes'[p].cells[LensesOf(p)[i].blame].value.isUncommitted
                     /\ config.recentChangeCommand \in
                            {"ShowQuickCommitDetails", "ShowQuickCommitFileDetails"}
                  THEN ""
                  ELSE C8_CommandIdentifier(config.recentChangeCommand))

\* C8: resolving a RecentChange lens whose commit is the uncommitted one
\* gives the quick-commit-details and quick-commit-file-details commands an
\* empty identifier; every other configured command gets the identifier it
\* gets for a committed commit.
C8_UncommittedDisablesQuickDetails == [][C8_ResolveStep]_vars

\* resolved lenses over an uncommitted commit: one with the empty
\* identifier, one with the identifier of another command
C8_Witness ==
    \E p \in PassIds :
        \E i \in DOMAIN LensesOf(p) :
            /\ LensesOf(p)[i].kind = "RecentChange"
            /\ LensesOf(p)[i].resolved > 0
            /\ passes[p].cells[LensesOf(p)[i].blame].value.isUncommitted
            /\ LensesOf(p)[i].command.title = "author, fromNow"
            /\ LensesOf(p)[i].command.command = ""
            /\ LensesOf(p)[i].command.arguments.commit = "uncommitted"

\* C9: a call whose fetch of the revision's text fails returns undefined
\* and shows one notice, which names the revision and the file; no call
\* fetches more than once, a call whose fetch did not fail shows nothing,
\* and the window holds one notice for each failed call, whichever calls
\* were pending at the time.
C9_FailedFetchDegrades ==
    /\ \A c \in DOMAIN content.calls :
        LET call == content.calls[c]
        IN  /\ call.fetches <= 1
            /\ call.pc \in {"fetching", "returned"}
            /\ call.failed =>
                  /\ call.pc = "returned"
                  /\ call.fetches = 1
                  /\ call.result = <<Absent>>
                  /\ Len(call.notices) = 1
                  /\ call.notices[1][2] = <<"shortenSha", call.data.sha>>
                  /\ call.notices[1][4] =
                        <<"relative", call.data.repoPath,
                          IF call.data.originalFileName = Absent
                          THEN call.data.fileName
                          ELSE call.data.originalFileName>>
                  /\ \E n \in DOMAIN content.notices :
                        content.notices[n] = call.notices[1]
            /\ ~call.failed => call.notices = <<>>
    /\ Len(content.notices) =
          Cardinality({c \in DOMAIN content.calls : content.calls[c].failed})

\* two calls for different files whose fetches both failed, the second
\* call's first: it was made and it failed while the first call was pending
C9_Witness ==
    /\ Len(content.calls) >= 2
    /\ content.calls[1].failed
    /\ content.calls[2].failed
    /\ content.calls[1].notices # content.calls[2].notices
    /\ Len(content.notices) = 2
    /\ content.notices[1] = content.calls[2].notices[1]
    /\ content.notices[2] = content.calls[1].notices[1]

\* C10: what a pass does with Authors lenses, and whether its lenses
\* resolve to an unsaved-changes title, follows the document the pass was
\* started for: Authors lenses are left out of the passes for dirty
\* documents and of no others, and a resolved RecentChange lens carries an
\* unsaved-changes title exactly if its document was dirty.
C10_PassFollowsItsOwnDocument ==
    \A p \in PassIds :
        Returned(p) =>
            \A i \in DOMAIN LensesOf(p) :
                /\ LensesOf(p)[i].kind = "Authors" => ~passes[p].document.isDirty
                /\ (/\ LensesOf(p)[i].kind = "RecentChange"
                    /\ ~passes[p].document.isDirty
                    /\ config.authorsEnabled
                    /\ ~isSingleLine(LensesOf(p)[i].blameRange))
                   => \E j \in DOMAIN LensesOf(p) :
                         /\ LensesOf(p)[j].kind = "Authors"
                         /\ LensesOf(p)[j].range.sl = LensesOf(p)[i].range.sl
                /\ (LensesOf(p)[i].kind = "RecentChange"
                        /\ LensesOf(p)[i].resolved > 0)
                   => (LensesOf(p)[i].command.title \in UnsavedTitles
                            <=> passes[p].document.isDirty)

\* the lenses a pass made for symbols, as against the lens of the whole
\* document
SymbolLensIds(p) == {i \in DOMAIN LensesOf(p) : ~LensesOf(p)[i].isFullRange}

\* the range from the start of the first line to the end of the last one
EntireDocument(document) ==
    Range(0, document.lineLength, document.lineCount - 1, document.lineLength)

\* C11 as stated: the lens of a File or Package symbol has a blame range
\* that runs from the first line of the document through its last line,
\* whatever the range of the symbol.
C11_FileAndPackageCoverDocument ==
    \A p \in PassIds :
        Returned(p) =>
            \A i \in SymbolLensIds(p) :
                LensesOf(p)[i].symbolKind \in {"File", "Package"} =>
                    /\ LensesOf(p)[i].blameRange.sl = 0
                    /\ LensesOf(p)[i].blameRange.el = passes[p].document.lineCount - 1

\* C11, amended: the lens of a File symbol has the whole document as its
\* blame range; the lens of a Package symbol has it when the symbol starts
\* and ends on line 0, and otherwise has the range of the symbol.
C11_FileAndFirstLinePackageCoverDocument ==
    \A p \in PassIds :
        Returned(p) =>
            \A i \in SymbolLensIds(p) :
                /\ LensesOf(p)[i].symbolKind = "File" =>
                        LensesOf(p)[i].blameRange = EntireDocument(passes[p].document)
                /\ LensesOf(p)[i].symbolKind = "Package" =>
                        \E k \in DOMAIN passes[p].symbols :
                            /\ passes[p].symbols[k].kind = "Package"
                            /\ passes[p].symbols[k].range.sl = LensesOf(p)[i].range.sl
                            /\ LensesOf(p)[i].blameRange =
                                  (IF /\ passes[p].symbols[k].range.sl = 0
                                      /\ passes[p].symbols[k].range.el = 0
                                   THEN EntireDocument(passes[p].document)
                                   ELSE passes[p].symbols[k].range)

\* a two-line document with lenses for a File symbol of its first line,
\* widened, and for a Package symbol of its second line, not widened
C11_Witness ==
    \E p \in PassIds :
        /\ Returned(p)
        /\ passes[p].document.lineCount = 2
        /\ Len(passes[p].symbols) = 2
        /\ passes[p].symbols[1].kind = "File"
        /\ passes[p].symbols[1].range.el = 0
        /\ passes[p].symbols[2].kind = "Package"
        /\ passes[p].symbols[2].range.sl = 1
        /\ \E i, j \in SymbolLensIds(p) :
                /\ LensesOf(p)[i].symbolKind = "File"
                /\ LensesOf(p)[i].blameRange.sl = 0
                /\ LensesOf(p)[i].blameRange.el = 1
                /\ LensesOf(p)[j].symbolKind = "Package"
                /\ LensesOf(p)[j].blameRange.sl = 1


\* the lenses of a pass for the whole document
DocumentLensIds(p) == {i \in DOMAIN LensesOf(p) : LensesOf(p)[i].isFullRange}

\* the policy of a pass asks for the lens of the whole document
C12_Requested(p) ==
    \/ \E n \in DOMAIN passes[p].languageLocations.locations :
            passes[p].languageLocations.locations[n] = "document"
    \/ /\ \E n \in DOMAIN passes[p].languageLocations.locations :
            passes[p].languageLocations.locations[n] = "custom"
       /\ \E n \in DOMAIN passes[p].languageLocations.customSymbols :
            passes[p].languageLocations.customSymbols[n] \in {"file", "FILE"}

\* C12: a pass that returns on a blame with lines, under a policy that asks
\* for the lens of the whole document: if no lens of a symbol starts on
\* line 0, the result has lenses for the whole document, on line 0 and with
\* the whole document as blame range (a RecentChange one if RecentChange is
\* enabled, an Authors one if Authors is enabled and the document is
\* clean); if a lens of a symbol starts on line 0 it has none.  With the
\* document location alone and only RecentChange enabled the result is one
\* RecentChange lens.
C12_WholeDocumentLens ==
    \A p \in PassIds :
        (/\ Returned(p)
         /\ passes[p].blame.defined
         /\ passes[p].blame.lines > 0
         /\ C12_Requested(p))
        => /\ \A i \in DocumentLensIds(p) :
                /\ LensesOf(p)[i].range.sl = 0
                /\ LensesOf(p)[i].range.el = 0
                /\ LensesOf(p)[i].blameRange = EntireDocument(passes[p].document)
           /\ IF \E i \in SymbolLensIds(p) : LensesOf(p)[i].range.sl = 0
              THEN DocumentLensIds(p) = {}
              ELSE /\ config.recentChangeEnabled =>
                        \E i \in DocumentLensIds(p) :
                            LensesOf(p)[i].kind = "RecentChange"
                   /\ (config.authorsEnabled /\ ~passes[p].document.isDirty) =>
                        \E i \in DocumentLensIds(p) :
                            LensesOf(p)[i].kind = "Authors"
           /\ (/\ passes[p].languageLocations.locations = <<"document">>
               /\ config.recentChangeEnabled
               /\ ~config.authorsEnabled)
              => /\ Len(LensesOf(p)) = 1
                 /\ LensesOf(p)[1].kind = "RecentChange"
                 /\ LensesOf(p)[1].isFullRange

\* a symbol of this kind is eligible under the policy of pass p
C13_Eligible(p, kind) ==
    LET locations == passes[p].languageLocations.locations
        allowlist == passes[p].languageLocations.customSymbols
        Has(location) == \E n \in DOMAIN locations : locations[n] = location
    IN  \/ /\ kind \in {"File", "Package", "Class", "Interface", "Module",
                        "Namespace", "Struct"}
           /\ Has("containers")
        \/ /\ kind \in {"Constructor", "Enum", "Function", "Method", "Property"}
           /\ Has("blocks")
        \/ /\ Has("custom")
           /\ \E n \in DOMAIN allowlist :
                    ToLowerCase(allowlist[n]) = ToLowerCase(kind)

\* C13: every lens a pass makes for a symbol belongs to a symbol of its
\* list whose kind is eligible under the policy of the pass: a container
\* kind with the containers location, a block kind with the blocks
\* location, or a kind on the allowlist, whatever its case, with the custom
\* location.  A symbol of a kind that is not eligible gets no lens.
C13_OnlyEligibleSymbolsGetLenses ==
    \A p \in PassIds :
        Returned(p) =>
            \A i \in SymbolLensIds(p) :
                /\ C13_Eligible(p, LensesOf(p)[i].symbolKind)
                /\ \E k \in DOMAIN passes[p].symbols :
                        /\ passes[p].symbols[k].kind = LensesOf(p)[i].symbolKind
                        /\ passes[p].symbols[k].range.sl = LensesOf(p)[i].range.sl

\* a Variable symbol got a lens through the allowlist entry "VARIABLE" and
\* the Function symbol after it, on another line, got none
C13_Witness ==
    \E p \in PassIds :
        /\ Returned(p)
        /\ Len(passes[p].symbols) = 2
        /\ passes[p].symbols[1].kind = "Variable"
        /\ passes[p].symbols[2].kind = "Function"
        /\ passes[p].symbols[1].range.sl # passes[p].symbols[2].range.sl
        /\ passes[p].languageLocations.locations = <<"custom">>
        /\ passes[p].languageLocations.customSymbols = <<"FILE", "VARIABLE">>
        /\ \E i \in SymbolLensIds(p) : LensesOf(p)[i].symbolKind = "Variable"
        /\ \A i \in SymbolLensIds(p) : LensesOf(p)[i].symbolKind # "Function"

====
